---- MODULE Spec2Model ----
(***************************************************************************)
(* update_tokens_table.py: a one-shot patcher of                           *)
(* web/default/src/components/TokensTable.js.  It reads the file, applies  *)
(* five literal str.replace substitutions in a fixed order and writes the  *)
(* buffer back.  Texts are TLA+ strings, so Len, SubSeq and \o work on     *)
(* characters exactly as Python's len, slicing and + do.                   *)
(***************************************************************************)
EXTENDS Integers, Sequences, FiniteSets, TLC

VARIABLES
    pc,       \* position of the script
    file,     \* the target file on disk: [exists, data]
    content,  \* the script's variable `content`
    orig,     \* history: the file as it was when the script started
    reads,    \* history: number of f.read() calls that returned
    writes,   \* history: number of f.write() calls made
    applied,  \* history: the rules applied so far, in order
    err       \* the call that raised, "" while none has

vars == <<pc, file, content, orig, reads, writes, applied, err>>

\* 1. Visibility toggle (src/update_tokens_table.py, lines 7-35)
old_v ==
    "                  <Popup\n" \o
    "                    trigger={\n" \o
    "                      <Button\n" \o
    "                        size=\"mini\"\n" \o
    "                        icon\n" \o
    "                        onClick={() => toggleKeyVisibility(token.id)}\n" \o
    "                      >\n" \o
    "                        <Icon name={showKeys[token.id] ? 'eye slash' : 'eye'} />\n" \o
    "                      </Button>\n" \o
    "                    }\n" \o
    "                    content={showKeys[token.id] ? t('common:hide') : t('common:show')}\n" \o
    "                    basic\n" \o
    "                    inverted\n" \o
    "                  />"

new_v ==
    "                  <Popup\n" \o
    "                    trigger={\n" \o
    "                      <Button\n" \o
    "                        size=\"mini\"\n" \o
    "                        icon\n" \o
    "                        onClick={() => toggleKeyVisibility(token.id)}\n" \o
    "                        aria-label={showKeys[token.id] ? t('common:hide', 'Hide') : t('common:show', 'Show')}\n" \o
    "                      >\n" \o
    "                        <Icon name={showKeys[token.id] ? 'eye slash' : 'eye'} />\n" \o
    "                      </Button>\n" \o
    "                    }\n" \o
    "                    content={showKeys[token.id] ? t('common:hide', 'Hide') : t('common:show', 'Show')}\n" \o
    "                    basic\n" \o
    "                    inverted\n" \o
    "                  />"

\* 2. Copy button (src/update_tokens_table.py, lines 39-67)
old_c ==
    "                  <Popup\n" \o
    "                    trigger={\n" \o
    "                      <Button\n" \o
    "                        size=\"mini\"\n" \o
    "                        icon\n" \o
    "                        onClick={() => copyTokenKey(token.key)}\n" \o
    "                      >\n" \o
    "                        <Icon name=\"copy\" />\n" \o
    "                      </Button>\n" \o
    "                    }\n" \o
    "                    content={t('common:copy')}\n" \o
    "                    basic\n" \o
    "                    inverted\n" \o
    "                  />"

\* variant: the new copy block brings an unpatched visibility block with it
new_c_with_old_v ==
    "                  <Popup content={t('common:copy', 'Copy')} />\n" \o old_v

new_c ==
    "                  <Popup\n" \o
    "                    trigger={\n" \o
    "                      <Button\n" \o
    "                        size=\"mini\"\n" \o
    "                        icon\n" \o
    "                        onClick={() => copyTokenKey(token.key)}\n" \o
    "                        aria-label={t('common:copy', 'Copy')}\n" \o
    "                      >\n" \o
    "                        <Icon name=\"copy\" />\n" \o
    "                      </Button>\n" \o
    "                    }\n" \o
    "                    content={t('common:copy', 'Copy')}\n" \o
    "                    basic\n" \o
    "                    inverted\n" \o
    "                  />"

\* 3. Enable/Disable (src/update_tokens_table.py, lines 71-133)
old_e ==
    "                  <Popup\n" \o
    "                    trigger={\n" \o
    "                      <Button\n" \o
    "                        size='small'\n" \o
    "                        positive={token.status === 1}\n" \o
    "                        negative={token.status !== 1}\n" \o
    "                        onClick={() => {\n" \o
    "                          manageToken(\n" \o
    "                            token.id,\n" \o
    "                            token.status === 1 ? 'disable' : 'enable',\n" \o
    "                            idx\n" \o
    "                          );\n" \o
    "                        }}\n" \o
    "                      >\n" \o
    "                        {token.status === 1 ? (\n" \o
    "                          <Icon name='pause' />\n" \o
    "                        ) : (\n" \o
    "                          <Icon name='play' />\n" \o
    "                        )}\n" \o
    "                      </Button>\n" \o
    "                    }\n" \o
    "                    content={\n" \o
    "                      token.status === 1\n" \o
    "                        ? t('common:disable')\n" \o
    "                        : t('common:enable')\n" \o
    "                    }\n" \o
    "                    basic\n" \o
    "                    inverted\n" \o
    "                  />"

new_e ==
    "                  <Popup\n" \o
    "                    trigger={\n" \o
    "                      <Button\n" \o
    "                        size='small'\n" \o
    "                        positive={token.status === 1}\n" \o
    "                        negative={token.status !== 1}\n" \o
    "                        onClick={() => {\n" \o
    "                          manageToken(\n" \o
    "                            token.id,\n" \o
    "                            token.status === 1 ? 'disable' : 'enable',\n" \o
    "                            idx\n" \o
    "                          );\n" \o
    "                        }}\n" \o
    "                        aria-label={\n" \o
    "                          token.status === 1\n" \o
    "                            ? t('common:disable', 'Disable')\n" \o
    "                            : t('common:enable', 'Enable')\n" \o
    "                        }\n" \o
    "                      >\n" \o
    "                        {token.status === 1 ? (\n" \o
    "                          <Icon name='pause' />\n" \o
    "                        ) : (\n" \o
    "                          <Icon name='play' />\n" \o
    "                        )}\n" \o
    "                      </Button>\n" \o
    "                    }\n" \o
    "                    content={\n" \o
    "                      token.status === 1\n" \o
    "                        ? t('common:disable', 'Disable')\n" \o
    "                        : t('common:enable', 'Enable')\n" \o
    "                    }\n" \o
    "                    basic\n" \o
    "                    inverted\n" \o
    "                  />"

\* 4. Edit (src/update_tokens_table.py, lines 137-167)
old_ed ==
    "                  <Popup\n" \o
    "                    trigger={\n" \o
    "                      <Button\n" \o
    "                        size='small'\n" \o
    "                        color='blue'\n" \o
    "                        as={Link}\n" \o
    "                        to={'/token/edit/' + token.id}\n" \o
    "                      >\n" \o
    "                        <Icon name='edit' />\n" \o
    "                      </Button>\n" \o
    "                    }\n" \o
    "                    content={t('common:edit')}\n" \o
    "                    basic\n" \o
    "                    inverted\n" \o
    "                  />"

new_ed ==
    "                  <Popup\n" \o
    "                    trigger={\n" \o
    "                      <Button\n" \o
    "                        size='small'\n" \o
    "                        color='blue'\n" \o
    "                        as={Link}\n" \o
    "                        to={'/token/edit/' + token.id}\n" \o
    "                        aria-label={t('common:edit', 'Edit')}\n" \o
    "                      >\n" \o
    "                        <Icon name='edit' />\n" \o
    "                      </Button>\n" \o
    "                    }\n" \o
    "                    content={t('common:edit', 'Edit')}\n" \o
    "                    basic\n" \o
    "                    inverted\n" \o
    "                  />"

\* 5. Delete (src/update_tokens_table.py, lines 171-209)
old_d ==
    "                  <Popup\n" \o
    "                    trigger={\n" \o
    "                      <Button\n" \o
    "                        size='small'\n" \o
    "                        negative\n" \o
    "                        onClick={() => {\n" \o
    "                          manageToken(token.id, 'delete', idx);\n" \o
    "                        }}\n" \o
    "                      >\n" \o
    "                        <Icon name='trash' />\n" \o
    "                      </Button>\n" \o
    "                    }\n" \o
    "                    content={t('common:delete')}\n" \o
    "                    basic\n" \o
    "                    inverted\n" \o
    "                  />"

\* variant: the confirmation popup is added in front of the old block
\* instead of replacing it
new_d_keeps_old ==
    "                  <Popup on='click' flowing hoverable />\n" \o old_d

new_d ==
    "                  <Popup\n" \o
    "                    trigger={\n" \o
    "                      <Button\n" \o
    "                        size='small'\n" \o
    "                        negative\n" \o
    "                        aria-label={t('common:delete', 'Delete')}\n" \o
    "                      >\n" \o
    "                        <Icon name='trash' />\n" \o
    "                      </Button>\n" \o
    "                    }\n" \o
    "                    on='click'\n" \o
    "                    flowing\n" \o
    "                    hoverable\n" \o
    "                  >\n" \o
    "                    <Button\n" \o
    "                      negative\n" \o
    "                      onClick={() => {\n" \o
    "                        manageToken(token.id, 'delete', idx);\n" \o
    "                      }}\n" \o
    "                    >\n" \o
    "                      {t('token.confirm_delete', 'Delete Token')}\n" \o
    "                    </Button>\n" \o
    "                  </Popup>"
(***************************************************************************)
(* str.replace(old, new) for a non-empty old: scan left to right, replace  *)
(* each occurrence found and resume the scan right after it.               *)
(***************************************************************************)
\* The positions of s at which old occurs.  The comparison of the first
\* characters is implied by the full comparison; it only lets a mismatch
\* show on a short slice.
Occurrences(s, old) ==
    LET len == Len(old)
        k == IF len <= 32 THEN len ELSE 32
        start == SubSeq(old, 1, k)
    IN  {i \in 1..(Len(s) - len + 1) :
            /\ SubSeq(s, i, i + k - 1) = start
            /\ SubSeq(s, i, i + len - 1) = old}

Contains(s, old) == Occurrences(s, old) # {}

RECURSIVE ReplaceFrom(_, _, _, _, _)
ReplaceFrom(s, occ, from, old, new) ==
    LET later == {i \in occ : i >= from} IN
    IF later = {}
    THEN SubSeq(s, from, Len(s))
    ELSE LET i == CHOOSE m \in later : \A n \in later : m <= n
         IN  SubSeq(s, from, i - 1) \o new
                 \o ReplaceFrom(s, occ, i + Len(old), old, new)

\* variant: str.replace(old, new, 1)
ReplaceFirst(s, old, new) ==
    LET occ == Occurrences(s, old) IN
    IF occ = {} THEN s
    ELSE LET i == CHOOSE m \in occ : \A n \in occ : m <= n
         IN  SubSeq(s, 1, i - 1) \o new \o SubSeq(s, i + Len(old), Len(s))

Replace(s, old, new) == ReplaceFrom(s, Occurrences(s, old), 1, old, new)

\* variant: rule 2 is given rule 4's new block
RulesMispaired ==
    <<[old |-> old_v,  new |-> new_v],
      [old |-> old_c,  new |-> new_ed],
      [old |-> old_e,  new |-> new_e],
      [old |-> old_ed, new |-> new_ed],
      [old |-> old_d,  new |-> new_d]>>

\* The five (old, new) pairs in the order the script applies them.
Rules == <<[old |-> old_v,  new |-> new_v],
           [old |-> old_c,  new |-> new_c],
           [old |-> old_e,  new |-> new_e],
           [old |-> old_ed, new |-> new_ed],
           [old |-> old_d,  new |-> new_d]>>

RuleIds == DOMAIN Rules

ApplyRule(s, i) == Replace(s, Rules[i].old, Rules[i].new)

\* Text-mode I/O with the default newline=None: reading translates "\r\n"
\* and a lone "\r" to "\n"; writing translates "\n" to os.linesep, which is
\* "\n" on the POSIX systems the script's forward-slash path is written for.
Decode(data) == Replace(Replace(data, "\r\n", "\n"), "\r", "\n")

Encode(text) == Replace(text, "\n", "\n")

(***************************************************************************)
(* Bounded input files.                                                    *)
(***************************************************************************)
MaxBlocks == 2

\* The blocks the rules look for, and the blocks they put in their place.
OldBlocks == <<old_v, old_c, old_e, old_ed, old_d>>

NewBlocks == <<new_v, new_c, new_e, new_ed, new_d>>

\* Texts that are almost an old block: old_c split after its first
\* character, and old_v with a blank at the end of one line.
NearMisses ==
    {" ", SubSeq(old_c, 2, Len(old_c)), Replace(old_v, "basic\n", "basic \n")}

\* Pieces of input files: the old blocks, old_v with CRLF line ends, a new
\* block, a line of other code, and the near misses.
Pieces ==
    {OldBlocks[i] : i \in RuleIds}
        \cup {Replace(old_v, "\n", "\r\n"), new_d, "const a = 1;\r\n"}
        \cup NearMisses

RECURSIVE Texts(_)
Texts(n) ==
    IF n = 0 THEN {""}
    ELSE LET shorter == Texts(n - 1)
         IN  shorter \cup {t \o p : t \in shorter, p \in Pieces}

\* Those of the given blocks whose number is in S and at least i, in
\* order, with the text f before, between and after them.
RECURSIVE Blocks(_, _, _, _)
Blocks(S, f, i, blocks) ==
    IF i > Len(blocks) THEN f
    ELSE (IF i \in S THEN f \o blocks[i] ELSE "")
             \o Blocks(S, f, i + 1, blocks)

\* Surrounding texts: none, a line break, a line with a CRLF ending, and
\* old_ed in another case.
Surroundings ==
    {"", "\n", "  // x\r\n", Replace(old_ed, "<Popup", "<popup")}

Inputs ==
    Texts(MaxBlocks)
        \cup {Blocks(S, f, 1, OldBlocks) :
                  S \in SUBSET RuleIds, f \in Surroundings}

(***************************************************************************)
(* The script.                                                             *)
(***************************************************************************)
Init ==
    /\ pc = "open_r"
    /\ \/ \E d \in Inputs : file = [exists |-> TRUE, data |-> d]
       \/ file = [exists |-> FALSE, data |-> ""]
    /\ content = ""
    /\ orig = file
    /\ reads = 0
    /\ writes = 0
    /\ applied = <<>>
    /\ err = ""

Raise(call) ==
    /\ pc' = "aborted"
    /\ err' = call

\* variant: the file is opened in a mode that creates it when missing
OpenReadCreating ==
    /\ pc = "open_r"
    /\ file' = [exists |-> TRUE, data |-> file.data]
    /\ pc' = "read"
    /\ UNCHANGED <<content, orig, reads, writes, applied, err>>

\* line 3: open(path, 'r') succeeds
OpenRead ==
    /\ pc = "open_r"
    /\ file.exists
    /\ pc' = "read"
    /\ UNCHANGED <<file, content, orig, reads, writes, applied, err>>

\* line 3: open(path, 'r') raises (no such file, or permission denied)
OpenReadErr ==
    /\ pc = "open_r"
    /\ Raise("open_r")
    /\ UNCHANGED <<file, content, orig, reads, writes, applied>>

\* line 4: content = f.read()
Read ==
    /\ pc = "read"
    /\ content' = Decode(file.data)
    /\ reads' = reads + 1
    /\ pc' = "rule1"
    /\ UNCHANGED <<file, orig, writes, applied, err>>

\* line 4: f.read() raises (undecodable bytes, I/O error)
ReadErr ==
    /\ pc = "read"
    /\ Raise("read")
    /\ UNCHANGED <<file, content, orig, reads, writes, applied>>

\* variant: a rule that matches nothing raises
RuleStepStrict(i, here, next) ==
    /\ pc = here
    /\ IF Contains(content, Rules[i].old)
       THEN /\ content' = ApplyRule(content, i)
            /\ applied' = Append(applied, i)
            /\ pc' = next
            /\ err' = err
       ELSE /\ Raise("replace")
            /\ UNCHANGED <<content, applied>>
    /\ UNCHANGED <<file, orig, reads, writes>>

RuleStep(i, here, next) ==
    /\ pc = here
    /\ content' = ApplyRule(content, i)
    /\ applied' = Append(applied, i)
    /\ pc' = next
    /\ UNCHANGED <<file, orig, reads, writes, err>>

\* line 36: content = content.replace(old_v, new_v)
ReplaceV == RuleStep(1, "rule1", "rule2")

\* line 68: content = content.replace(old_c, new_c)
ReplaceC == RuleStep(2, "rule2", "rule3")

\* variant: line 168 pasted in place of line 134
ReplaceEdTwice ==
    /\ pc = "rule3"
    /\ content' = ApplyRule(content, 4)
    /\ applied' = Append(applied, 4)
    /\ pc' = "rule4"
    /\ UNCHANGED <<file, orig, reads, writes, err>>

\* line 134: content = content.replace(old_e, new_e)
ReplaceE == RuleStep(3, "rule3", "rule4")

\* line 168: content = content.replace(old_ed, new_ed)
ReplaceEd == RuleStep(4, "rule4", "rule5")

\* variant: the buffer is saved to the file after the last rule
ReplaceDSaving ==
    /\ pc = "rule5"
    /\ content' = ApplyRule(content, 5)
    /\ applied' = Append(applied, 5)
    /\ file' = [file EXCEPT !.data = Encode(content')]
    /\ writes' = writes + 1
    /\ pc' = "open_w"
    /\ UNCHANGED <<orig, reads, err>>

\* line 210: content = content.replace(old_d, new_d)
ReplaceD == RuleStep(5, "rule5", "open_w")

\* variant: the file is opened for update ('r+'), which does not truncate
OpenWriteKeeping ==
    /\ pc = "open_w"
    /\ pc' = "write"
    /\ UNCHANGED <<file, content, orig, reads, writes, applied, err>>

\* line 212: open(path, 'w') succeeds and truncates the file
OpenWrite ==
    /\ pc = "open_w"
    /\ file' = [exists |-> TRUE, data |-> ""]
    /\ pc' = "write"
    /\ UNCHANGED <<content, orig, reads, writes, applied, err>>

\* line 212: open(path, 'w') raises (permission denied, read-only medium)
OpenWriteErr ==
    /\ pc = "open_w"
    /\ Raise("open_w")
    /\ UNCHANGED <<file, content, orig, reads, writes, applied>>

\* line 213 and the end of the with block: the buffer reaches the file
Write ==
    /\ pc = "write"
    /\ file' = [file EXCEPT !.data = Encode(content)]
    /\ writes' = writes + 1
    /\ pc' = "done"
    /\ UNCHANGED <<content, orig, reads, applied, err>>

\* line 213: the write or the flush on close raises (disk full, I/O error)
\* after k characters reached the file
WriteErr ==
    /\ pc = "write"
    /\ \E k \in {0, Len(content) \div 2} :
           file' = [file EXCEPT !.data = SubSeq(Encode(content), 1, k)]
    /\ writes' = writes + 1
    /\ Raise("write")
    /\ UNCHANGED <<content, orig, reads, applied>>

Next ==
    \/ OpenRead \/ OpenReadErr \/ Read \/ ReadErr
    \/ ReplaceV \/ ReplaceC \/ ReplaceE \/ ReplaceEd \/ ReplaceD
    \/ OpenWrite \/ OpenWriteErr \/ Write \/ WriteErr

Spec == Init /\ [][Next]_vars

(***************************************************************************)
(* The five replacements as a pure function of the buffer, applied in any  *)
(* order: each rule once, the next one chosen freely.  Here applied is the *)
(* set of the rules applied so far.                                        *)
(***************************************************************************)
MaxBlocksAny == 1

InputsAny ==
    Texts(MaxBlocksAny)
        \cup {Blocks(S, "  // x\r\n", 1, OldBlocks) : S \in SUBSET RuleIds}

InitAny ==
    /\ pc = "any"
    /\ \E d \in InputsAny :
           /\ file = [exists |-> TRUE, data |-> d]
           /\ content = Decode(d)
    /\ orig = file
    /\ reads = 1
    /\ writes = 0
    /\ applied = {}
    /\ err = ""

ApplyAny(i) ==
    /\ pc = "any"
    /\ i \notin applied
    /\ content' = ApplyRule(content, i)
    /\ applied' = applied \cup {i}
    /\ UNCHANGED <<pc, file, orig, reads, writes, err>>

NextAny == \E i \in RuleIds : ApplyAny(i)

SpecAny == InitAny /\ [][NextAny]_vars

(***************************************************************************)
(* Vocabulary of the properties.                                           *)
(***************************************************************************)
\* the position at which rule i is about to be applied, and the one after
RulePc == <<"rule1", "rule2", "rule3", "rule4", "rule5">>

AfterPc == <<"rule2", "rule3", "rule4", "rule5", "open_w">>

\* the buffer after rules 1..5 were applied in the script's order
PatchAll(s) ==
    ApplyRule(ApplyRule(ApplyRule(ApplyRule(ApplyRule(s, 1), 2), 3), 4), 5)

IsPrefix(p, s) == Len(p) <= Len(s) /\ SubSeq(s, 1, Len(p)) = p

\* the text the script read (or would read) from the original file
Original == Decode(orig.data)

Matched(i) == Contains(Original, Rules[i].old)

(***************************************************************************)
(* C1: when a rule's old literal does not occur in the buffer at the       *)
(* moment the rule is applied, the step leaves the buffer unchanged,       *)
(* raises nothing and moves on to the next rule; and a run terminates      *)
(* successfully, with the buffer written, whatever rules matched.          *)
(***************************************************************************)
C1_SkipStep ==
    \A i \in RuleIds :
        (pc = RulePc[i] /\ pc' # pc /\ ~Contains(content, Rules[i].old))
            => /\ content' = content
               /\ err' = ""
               /\ pc' = AfterPc[i]
               /\ file' = file

C1_SameTermination ==
    /\ pc \in {"rule1", "rule2", "rule3", "rule4", "rule5", "open_w"}
           => err = ""
    /\ pc = "done" => /\ err = ""
                      /\ writes = 1
                      /\ file.data = Encode(content)

\* C1: a rule whose old literal is absent is a silent no-op, and the run
\* goes on to the same successful termination.
C1_UnmatchedRuleIsSilentNoOp == [][C1_SkipStep]_vars /\ []C1_SameTermination

\* a run that ended in success although rule 2 and rule 4 matched nothing
\* and rule 1 did
C1_Witness ==
    /\ pc = "done"
    /\ Matched(1) /\ ~Matched(2) /\ ~Matched(4)
    /\ file.data # orig.data

(***************************************************************************)
(* C2: a rule applied to a buffer holding its old literal replaces every   *)
(* occurrence by the new literal; the occurrences do not overlap, and the  *)
(* text before, between and after them is carried over unchanged and in    *)
(* the same order.                                                         *)
(***************************************************************************)
ReplacedEverywhere(s, r, old, new) ==
    LET P == Occurrences(s, old)
        d == Len(new) - Len(old)
        Shift(x) == d * Cardinality({p \in P : p < x})
        \* the first position after the occurrence that precedes position x
        GapStart(x) ==
            LET before == {p \in P : p < x} IN
            IF before = {} THEN 1
            ELSE (CHOOSE m \in before : \A n \in before : n <= m) + Len(old)
        End == Len(s) + 1
    IN  /\ Len(r) = Len(s) + d * Cardinality(P)
        /\ \A p \in P :
               /\ GapStart(p) <= p
               /\ SubSeq(r, p + Shift(p), p + Shift(p) + Len(new) - 1) = new
               /\ SubSeq(r, GapStart(p) + Shift(p), p - 1 + Shift(p))
                      = SubSeq(s, GapStart(p), p - 1)
        /\ SubSeq(r, GapStart(End) + Shift(End), Len(r))
               = SubSeq(s, GapStart(End), Len(s))

C2_Step ==
    \A i \in RuleIds :
        (pc = RulePc[i] /\ pc' # pc /\ Contains(content, Rules[i].old))
            => ReplacedEverywhere(content, content', Rules[i].old, Rules[i].new)

\* C2: every step of a rule that matches replaces every occurrence and
\* keeps the rest of the buffer.
C2_EveryOccurrenceReplaced == [][C2_Step]_vars

\* rule 1 has just replaced two occurrences of its old literal
C2_Witness ==
    /\ pc = "rule2"
    /\ Cardinality(Occurrences(Original, old_v)) = 2
    /\ Cardinality(Occurrences(content, new_v)) = 2
    /\ ~Contains(content, old_v)

(***************************************************************************)
(* C3: the rules are applied in the order 1, 2, 3, 4, 5, each to the       *)
(* buffer the previous one produced, and what is finally written is        *)
(* rule5(rule4(rule3(rule2(rule1(content read))))).                        *)
(***************************************************************************)
C3_State ==
    /\ \A i \in RuleIds : pc = RulePc[i] => applied = [k \in 1..(i - 1) |-> k]
    /\ pc \in {"open_w", "write", "done"} => applied = <<1, 2, 3, 4, 5>>
    /\ pc = "open_w" => content = PatchAll(Original)
    /\ pc = "done" => file.data = Encode(PatchAll(Original))

C3_Step ==
    \A i \in RuleIds :
        (pc = RulePc[i] /\ pc' # pc) =>
            /\ content' = ApplyRule(content, i)
            /\ applied' = Append(applied, i)

\* C3: rules 1 to 5 in that order, each on the previous result; the file
\* finally holds rule5(rule4(rule3(rule2(rule1(content read))))).
C3_FixedOrderChain == []C3_State /\ [][C3_Step]_vars

\* a finished run in which rules 3 and 4 both changed the buffer
C3_Witness ==
    /\ pc = "done"
    /\ Matched(3) /\ Matched(4)
    /\ applied = <<1, 2, 3, 4, 5>>
    /\ file.data = Encode(PatchAll(Original))
    /\ file.data # orig.data

(***************************************************************************)
(* C4: a second run on the output of a first run changes nothing, because  *)
(* no rule's old literal occurs in the buffer a run leaves behind.         *)
(***************************************************************************)
C4_Idempotent ==
    pc = "done" =>
        /\ \A i \in RuleIds : ~Contains(content, Rules[i].old)
        /\ PatchAll(Decode(file.data)) = content
        /\ Encode(PatchAll(Decode(file.data))) = file.data

\* a finished run that replaced rule 5's block inside other text
C4_Witness ==
    /\ pc = "done"
    /\ Matched(5)
    /\ Len(Original) > Len(old_d)
    /\ Contains(content, new_d)
    /\ PatchAll(Decode(file.data)) = content

(***************************************************************************)
(* C5: a buffer made of the old blocks of the rules of a set S with        *)
(* surrounding text that holds no old literal comes out with exactly those *)
(* blocks replaced by their new blocks and the surrounding text as it was, *)
(* without error; S can be all five rules, {1, 3, 5} or empty.             *)
(***************************************************************************)
C5_SubsetScenario ==
    pc = "done" =>
        \A S \in SUBSET RuleIds, f \in Surroundings :
            orig.data = Blocks(S, f, 1, OldBlocks) =>
                /\ content = Blocks(S, Decode(f), 1, NewBlocks)
                /\ file.data = Encode(content)
                /\ err = ""

\* the partial-match scenario: only rules 1, 3 and 5 have their blocks
C5_Witness ==
    /\ pc = "done"
    /\ orig.data = Blocks({1, 3, 5}, "  // x\r\n", 1, OldBlocks)
    /\ content = Blocks({1, 3, 5}, "  // x\n", 1, NewBlocks)
    /\ ~Matched(2) /\ ~Matched(4)
    /\ err = ""

(***************************************************************************)
(* C6 (as amended): the file is read at most once, and exactly once in     *)
(* every run that gets past the read; the read comes before any rule; the  *)
(* buffer is written at most once, only after all five rules; and the file *)
(* is not touched from the start of the run until all five rules have been *)
(* applied.                                                                *)
(***************************************************************************)
C6_ReadOnceWriteOnce ==
    /\ reads <= 1
    /\ writes <= 1
    /\ pc \in {"open_r", "read"} => reads = 0 /\ applied = <<>>
    /\ applied # <<>> => reads = 1
    /\ pc \in {"rule1", "rule2", "rule3", "rule4", "rule5",
               "open_w", "write", "done"} => reads = 1
    /\ (file # orig \/ writes > 0) => applied = <<1, 2, 3, 4, 5>>
    /\ pc = "done" => writes = 1

\* C6 as stated: every run, also one that ends at the open, reads the file
\* exactly once
C6_AsStated ==
    /\ C6_ReadOnceWriteOnce
    /\ pc \in {"done", "aborted"} => reads = 1

\* all five rules applied and the file still as it was found
C6_Witness ==
    /\ pc = "open_w"
    /\ applied = <<1, 2, 3, 4, 5>>
    /\ content # Original
    /\ file = orig
    /\ reads = 1 /\ writes = 0

(***************************************************************************)
(* C7 (as amended): the file holds its original content until it is opened *)
(* for output, and the complete transformed buffer once the run has ended  *)
(* in success; from the truncating open until the write has completed it   *)
(* is empty, and after a failed write it holds a prefix of the transformed *)
(* buffer, possibly none of it.                                            *)
(***************************************************************************)
C7_FileContent ==
    /\ pc \in {"open_r", "read", "rule1", "rule2", "rule3", "rule4", "rule5",
               "open_w"} => file = orig
    /\ pc = "write" => file.data = ""
    /\ pc = "done" => file.data = Encode(PatchAll(Original))
    /\ pc = "aborted" =>
           IF err = "write"
           THEN IsPrefix(file.data, Encode(PatchAll(Original)))
           ELSE file = orig

\* C7 as stated: the file always holds the original or the complete result
C7_AsStated ==
    \/ file = orig
    \/ file.data = Encode(PatchAll(Original))

\* a failed write left half of the transformed buffer in the file
C7_Witness ==
    /\ pc = "aborted"
    /\ err = "write"
    /\ file.data # ""
    /\ file.data # Encode(PatchAll(Original))
    /\ file # orig

(***************************************************************************)
(* C8: when the file is missing or cannot be opened or read, the run       *)
(* aborts with that error before any rule is applied, never terminates in  *)
(* success and never writes or creates the file; a failure to open or      *)
(* write the file for output ends the run in the error outcome too.        *)
(***************************************************************************)
C8_State ==
    /\ ~orig.exists =>
           /\ pc \in {"open_r", "aborted"}
           /\ ~file.exists
    /\ err \in {"open_r", "read"} =>
           /\ pc = "aborted"
           /\ applied = <<>>
           /\ writes = 0
           /\ file = orig
    /\ err # "" => pc = "aborted"
    /\ pc = "done" => err = ""

C8_Step ==
    /\ err # "" => UNCHANGED vars
    /\ (pc = "open_r" /\ ~file.exists /\ pc' # pc) =>
           pc' = "aborted" /\ err' = "open_r"
    /\ (err = "" /\ err' # "") => pc' = "aborted"

\* C8: a failed open or read aborts the run before any rule with the file
\* neither written nor created; a failed open or write for output aborts
\* it too.
C8_IOErrorsAbort == []C8_State /\ [][C8_Step]_vars

\* the run on a missing file has aborted at the open
C8_Witness ==
    /\ ~orig.exists
    /\ pc = "aborted"
    /\ err = "open_r"
    /\ ~file.exists

(***************************************************************************)
(* C10: the rules are independent.  Applying a rule neither creates nor    *)
(* destroys an occurrence of another rule's old literal and leaves none of *)
(* its own; occurrences of different rules' old literals do not overlap;   *)
(* so every order of the five rules gives the result of the script's       *)
(* order.                                                                  *)
(***************************************************************************)
C10_OrderIndependent ==
    LET now == [i \in RuleIds |-> Occurrences(content, Rules[i].old)]
    IN  /\ \A i \in applied : now[i] = {}
        /\ \A i \in RuleIds \ applied :
               Cardinality(now[i])
                   = Cardinality(Occurrences(Original, Rules[i].old))
        /\ \A i, j \in RuleIds :
               i # j =>
                   \A p \in now[i], q \in now[j] :
                       p + Len(Rules[i].old) <= q \/ q + Len(Rules[j].old) <= p
        /\ applied = RuleIds => content = PatchAll(Original)

\* all five blocks present, and rules 2 and 5 applied before 1, 3 and 4
C10_Witness ==
    /\ applied = {2, 5}
    /\ \A i \in RuleIds : Matched(i)
    /\ Contains(content, new_c) /\ Contains(content, new_d)
    /\ Contains(content, old_v) /\ Contains(content, old_e)
====
